---- MODULE Spec2Model ----
(***************************************************************************)
(* Process Explorer (src/src/process_explorer/main.py): the application    *)
(* object, the main window's handlers and the tree store they rebuild.     *)
(*                                                                         *)
(* Spec      the event loop: one action per GTK/GLib callback, each        *)
(*           handler run to completion (single UI thread).                 *)
(* TreeSpec  the tree-building loop of _refresh (lines 169-181) executed   *)
(*           call by call with an explicit call stack, for any poll.       *)
(***************************************************************************)
EXTENDS Integers, Sequences, FiniteSets

VARIABLES
    pref_file,     \* content of welcome.json, or NoFile
    wlc_settings,  \* app._wlc_settings: <<>> while unset, else <<dict>>
    window,        \* props.active_window: "none" or "open"
    dialog,        \* TRUE while the welcome dialog is presented
    activate_exc,  \* exception that escaped the last do_activate, or "none"
    procs,         \* the dict of the latest poll: pid -> info
    store,         \* self.store: the rows in append order
    visible,       \* pids of the rows self.filter_model shows
    selected,      \* pids of the rows selected in self.tree
    search_text,   \* self._search_text
    auto_refresh,  \* self._auto_refresh
    timer_id,      \* self._timer_id: the 3 s source, NoSource when not scheduled
    pending,       \* number of one-shot 500 ms sources waiting to call _refresh
    lastEvent,     \* the handler that ran last
    refreshed,     \* TRUE iff the handler that ran last called _refresh
    attempted,     \* pids the last handler called send_signal for
    delivered,     \* pids for which that send_signal succeeded
    exc,           \* exception that escaped the last signal handler, or "none"
    pc,            \* TreeSpec: position in the tree-building loop
    roots_left,    \* TreeSpec: roots the for loop of line 180 has not reached
    stack          \* TreeSpec: the call stack of add_tree

vars == <<pref_file, wlc_settings, window, dialog, activate_exc, procs, store,
          visible, selected, search_text, auto_refresh, timer_id, pending,
          lastEvent, refreshed, attempted, delivered, exc, pc, roots_left, stack>>

----------------------------------------------------------------------------
(* Bounds *)

\* pids the operating system hands out: 1..MaxPid
MaxPid == 2
\* one-shot refresh sources that may wait at the same time
MaxPending == 1
\* pids of the polls TreeSpec walks: 1..MaxTreePid
MaxTreePid == 3

----------------------------------------------------------------------------
(* Python values *)

\* Python's None where an integer (pid, ppid) or a row reference is expected
None == -1

\* os.path.exists(p) is False
NoFile == "<no file>"

\* no GLib source is scheduled
NoSource == "no source"

Pids == 1..MaxPid

\* A str column holds a sequence of characters; the empty sequence stands for
\* both None and "": the code reads these columns only through `x or ""`.
Or(x, default) == IF x = <<>> THEN default ELSE x

\* str.lower() on one character
LowerChar(c) ==
    CASE c = "A" -> "a"
      [] c = "B" -> "b"
      [] c = "R" -> "r"
      [] OTHER -> c

\* str.lower()
Lower(s) == [i \in 1..Len(s) |-> LowerChar(s[i])]

\* needle in hay (Python's substring test on str)
In(needle, hay) ==
    \E i \in 1..(Len(hay) - Len(needle) + 1) :
        SubSeq(hay, i, i + Len(needle) - 1) = needle

Digit(d) ==
    CASE d = 0 -> "0" [] d = 1 -> "1" [] d = 2 -> "2" [] d = 3 -> "3"
      [] d = 4 -> "4" [] d = 5 -> "5" [] d = 6 -> "6" [] d = 7 -> "7"
      [] d = 8 -> "8" [] d = 9 -> "9"

\* str(n) for an int n >= 0
RECURSIVE Str(_)
Str(n) == IF n < 10 THEN <<Digit(n)>> ELSE Str(n \div 10) \o <<Digit(n % 10)>>

\* the elements of a finite set of integers in ascending order
RECURSIVE Sorted(_)
Sorted(S) ==
    IF S = {} THEN <<>>
    ELSE LET m == CHOOSE x \in S : \A y \in S : x <= y
         IN <<m>> \o Sorted(S \ {m})

----------------------------------------------------------------------------
(* The process table psutil reports *)

\* name of a process; <<>> when psutil was denied access to it
NameOf(pid) == IF pid % 2 = 1 THEN <<"A", "b">> ELSE <<>>

\* user of a process; <<>> when psutil was denied access to it
UserOf(pid) == IF pid % 2 = 1 THEN <<"r">> ELSE <<>>

\* p.info of one process
Info(pid, ppid) ==
    [pid |-> pid, ppid |-> ppid, name |-> NameOf(pid), username |-> UserOf(pid)]

\* every dict the loop of lines 140-146 can build: any non-empty set of the
\* pids P, any of the ppids PP for each
SnapshotsOver(P, PP) ==
    UNION { { [p \in S |-> Info(p, f[p])] : f \in [S -> PP] } :
            S \in (SUBSET P) \ {{}} }

\* the polls of Spec. The ppid of a record is unknown (None) or a pid, of a
\* record of the same poll or not.
Snapshots == SnapshotsOver(Pids, {None} \cup Pids)

\* the polls of TreeSpec; 0 is the ppid of a process without a parent
TreeSnapshots == SnapshotsOver(1..MaxTreePid, {None, 0} \cup (1..MaxTreePid))

\* what the user can type into the search entry
SearchTexts == { <<>>, <<"a", "B">>, <<"R">>, <<"2">> }

----------------------------------------------------------------------------
(* _refresh: building the tree store (lines 148-181) *)

\* a value written to an int column: GObject.Value leaves None at the default 0
IntColumn(v) == IF v = None THEN 0 ELSE v

\* add_proc (lines 151-167): append the row of pid under parent_iter. A row is
\* referred to (iters[pid]) by its pid; parent is None for a top-level row.
add_proc(st, pr, pid, parent_iter) ==
    IF pid \notin DOMAIN pr THEN st
    ELSE Append(st, [pid    |-> pr[pid].pid,
                     name   |-> pr[pid].name,
                     user   |-> Or(pr[pid].username, <<"?">>),
                     ppid   |-> IntColumn(pr[pid].ppid),
                     parent |-> parent_iter])

\* children.get(pid, []) (lines 169-172): the pids whose ppid is pid, in the
\* order of procs.items() (psutil.process_iter yields ascending pids)
children(pr, pid) == Sorted({ q \in DOMAIN pr : pr[q].ppid = pid })

\* a plausible slip: only ppid 0 or an unknown ppid makes a root
roots_only_ppid_zero(pr) == { p \in DOMAIN pr : pr[p].ppid \in {0, None} }

\* a plausible slip: every record is walked from as a root
roots_all(pr) == DOMAIN pr

\* roots (line 179): the records whose ppid is no key of procs
roots(pr) == { p \in DOMAIN pr : pr[p].ppid \notin DOMAIN pr }

\* add_tree (lines 174-177) and its for loop over the children
RECURSIVE add_tree(_, _, _, _)
RECURSIVE add_children(_, _, _, _)
add_tree(st, pr, pid, parent_iter) ==
    add_children(add_proc(st, pr, pid, parent_iter), pr, children(pr, pid), pid)

add_children(st, pr, todo, it) ==
    IF todo = <<>> THEN st
    ELSE add_children(add_tree(st, pr, Head(todo), it), pr, Tail(todo), it)

\* for pid in sorted(roots): add_tree(pid) (lines 180-181)
RECURSIVE add_roots(_, _, _)
add_roots(st, pr, todo) ==
    IF todo = <<>> THEN st
    ELSE add_roots(add_tree(st, pr, Head(todo), None), pr, Tail(todo))

\* the store after store.clear() and the loop of lines 180-181
BuildStore(pr) == add_roots(<<>>, pr, Sorted(roots(pr)))

RowPids(st) == { st[i].pid : i \in 1..Len(st) }

----------------------------------------------------------------------------
(* The filter model (lines 82-83, 192-203) *)

\* a plausible slip: the third column tested is PPID (7) instead of PID (0)
filter_func_ppid(row, text) ==
    IF text = <<>> THEN TRUE
    ELSE LET name == Lower(Or(row.name, <<>>))
             user == Lower(Or(row.user, <<>>))
             pid  == Str(row.ppid)
             s    == Lower(text)
         IN In(s, name) \/ In(s, user) \/ In(s, pid)

\* _filter_func (lines 192-199)
filter_func(row, text) ==
    IF text = <<>> THEN TRUE
    ELSE LET name == Lower(Or(row.name, <<>>))
             user == Lower(Or(row.user, <<>>))
             pid  == Str(row.pid)
             s    == Lower(text)
         IN In(s, name) \/ In(s, user) \/ In(s, pid)

\* the row iters[pid] refers to
RowOf(st, pid) == st[CHOOSE i \in 1..Len(st) : st[i].pid = pid]

\* Gtk.TreeModelFilter with a visible function: a row is in the filter model
\* iff the function accepts it and its parent row is in the filter model
RECURSIVE Shown(_, _, _)
Shown(st, row, text) ==
    /\ filter_func(row, text)
    /\ \/ row.parent = None
       \/ Shown(st, RowOf(st, row.parent), text)

\* filter_model after refilter(), and after the row-inserted signals of a rebuild
Refilter(st, text) == { st[i].pid : i \in { j \in 1..Len(st) : Shown(st, st[j], text) } }

----------------------------------------------------------------------------
(* The welcome settings (lines 16-34) and the application class *)

ShownJson == "{\"welcome_shown\": true}"
NotShownJson == "{\"welcome_shown\": false}"

\* json.load
json_load(text) ==
    IF text = ShownJson THEN [welcome_shown |-> TRUE] ELSE [welcome_shown |-> FALSE]

\* _load_wlc_settings (lines 23-29)
load_wlc_settings(file) ==
    IF file # NoFile THEN json_load(file) ELSE [welcome_shown |-> FALSE]

\* the attributes the body of class ProcessExplorerApp defines (lines 259-277);
\* _show_welcome and _on_welcome_close are defined at lines 288-315, inside
\* the `if __name__ == "__main__":` block, as plain functions of the module
ProcessExplorerApp == {"__init__", "do_activate", "do_startup"}

----------------------------------------------------------------------------
(* Sending signals (lines 205-219) *)

\* what psutil.Process(pid).send_signal(sig) can do
Outcomes == {"ok", "NoSuchProcess", "AccessDenied", "PermissionError"}

\* a plausible slip: the except clause leaves out psutil.AccessDenied
CaughtNoAccessDenied == {"NoSuchProcess", "PermissionError"}

\* the except clause of line 217
Caught == {"NoSuchProcess", "AccessDenied", "PermissionError"}

\* selection.get_selected_rows(): the selected rows in the order of the model
selected_rows(st, sel) ==
    LET keep(row) == row.pid \in sel
    IN [i \in 1..Len(SelectSeq(st, keep)) |-> SelectSeq(st, keep)[i].pid]

\* the for loop of lines 211-218; an exception the except clause does not
\* name leaves the loop and the handler
RECURSIVE send_all(_, _, _)
send_all(todo, outcome, acc) ==
    IF todo = <<>> THEN acc
    ELSE LET pid == Head(todo)
             tried == [acc EXCEPT !.attempted = @ \cup {pid}]
         IN IF outcome[pid] = "ok"
            THEN send_all(Tail(todo), outcome, [tried EXCEPT !.delivered = @ \cup {pid}])
            ELSE IF outcome[pid] \in Caught
            THEN send_all(Tail(todo), outcome, tried)
            ELSE [tried EXCEPT !.exc = outcome[pid]]

----------------------------------------------------------------------------
(* Spec: the event loop *)

Init ==
    /\ pref_file = NoFile
    /\ wlc_settings = <<>>
    /\ window = "none"
    /\ dialog = FALSE
    /\ activate_exc = "none"
    /\ procs = <<>>
    /\ store = <<>>
    /\ visible = {}
    /\ selected = {}
    /\ search_text = <<>>
    /\ auto_refresh = FALSE
    /\ timer_id = NoSource
    /\ pending = 0
    /\ lastEvent = "init"
    /\ refreshed = FALSE
    /\ attempted = {}
    /\ delivered = {}
    /\ exc = "none"
    /\ pc = "idle"
    /\ roots_left = <<>>
    /\ stack = <<>>

tree_vars == <<pc, roots_left, stack>>
app_vars == <<pref_file, wlc_settings, dialog, activate_exc>>
no_signal == attempted' = {} /\ delivered' = {} /\ exc' = "none"
no_refresh == refreshed' = FALSE /\ UNCHANGED <<procs, store>>

\* _refresh (lines 129-181) when the poll yields snap. Lines 130-137 read the
\* selection into the local sel_pids, which nothing reads afterwards;
\* store.clear() removes every row, and with the rows the selection.
refresh(snap) ==
    /\ procs' = snap
    /\ store' = BuildStore(snap)
    /\ visible' = Refilter(store', search_text)
    /\ selected' = {}
    /\ refreshed' = TRUE

\* ProcessExplorerApp.do_activate (lines 263-269), with
\* ProcessExplorerWindow.__init__ (lines 37-127) when there is no window yet
do_activate ==
    /\ window' = "open"
    /\ IF window = "none"
       THEN /\ \E snap \in Snapshots : refresh(snap)
            /\ search_text' = <<>>
            /\ auto_refresh' = TRUE
            /\ timer_id' = "_auto_refresh_cb"
            /\ pending' = 0
       ELSE /\ no_refresh
            /\ UNCHANGED <<visible, selected, search_text, auto_refresh, timer_id, pending>>
    /\ wlc_settings' = <<load_wlc_settings(pref_file)>>
    /\ IF ~ wlc_settings'[1].welcome_shown
       THEN IF "_show_welcome" \in ProcessExplorerApp
            THEN dialog' = TRUE /\ activate_exc' = "none"
            ELSE dialog' = dialog /\ activate_exc' = "AttributeError"
       ELSE dialog' = dialog /\ activate_exc' = "none"
    /\ lastEvent' = "other"
    /\ no_signal
    /\ UNCHANGED <<pref_file, tree_vars>>

\* app.quit (lines 274-277) and the next main() (lines 280-282): only the
\* preference file outlives the process
quit ==
    /\ window = "open"
    /\ wlc_settings' = <<>>
    /\ window' = "none"
    /\ dialog' = FALSE
    /\ activate_exc' = "none"
    /\ procs' = <<>>
    /\ store' = <<>>
    /\ visible' = {}
    /\ selected' = {}
    /\ search_text' = <<>>
    /\ auto_refresh' = FALSE
    /\ timer_id' = NoSource
    /\ pending' = 0
    /\ lastEvent' = "init"
    /\ refreshed' = FALSE
    /\ no_signal
    /\ UNCHANGED <<pref_file, tree_vars>>

\* the refresh button (line 73)
refresh_clicked ==
    /\ window = "open"
    /\ \E snap \in Snapshots : refresh(snap)
    /\ lastEvent' = "other"
    /\ no_signal
    /\ UNCHANGED <<app_vars, window, search_text, auto_refresh, timer_id, pending, tree_vars>>

\* a plausible slip: the callback does not test the flag
auto_refresh_cb_always ==
    /\ window = "open"
    /\ timer_id # NoSource
    /\ \E snap \in Snapshots : refresh(snap)
    /\ lastEvent' = "auto_cb"
    /\ no_signal
    /\ UNCHANGED <<app_vars, window, search_text, auto_refresh, timer_id, pending, tree_vars>>

\* _auto_refresh_cb (lines 224-227), called by the 3 s source; it returns
\* True, so the source stays
auto_refresh_cb ==
    /\ window = "open"
    /\ timer_id # NoSource
    /\ IF auto_refresh
       THEN \E snap \in Snapshots : refresh(snap)
       ELSE no_refresh /\ UNCHANGED <<visible, selected>>
    /\ lastEvent' = "auto_cb"
    /\ no_signal
    /\ UNCHANGED <<app_vars, window, search_text, auto_refresh, timer_id, pending, tree_vars>>

\* a one-shot source of line 219 calls _refresh; it returns None, so the
\* source is removed
timeout_refresh ==
    /\ window = "open"
    /\ pending > 0
    /\ \E snap \in Snapshots : refresh(snap)
    /\ pending' = pending - 1
    /\ lastEvent' = "other"
    /\ no_signal
    /\ UNCHANGED <<app_vars, window, search_text, auto_refresh, timer_id, tree_vars>>

\* _on_search (lines 201-203): "changed" of the search entry. Rows that leave
\* the filter model leave the selection.
on_search ==
    /\ window = "open"
    /\ \E text \in SearchTexts \ {search_text} :
          /\ search_text' = text
          /\ visible' = Refilter(store, text)
    /\ selected' = selected \cap visible'
    /\ lastEvent' = "other"
    /\ no_refresh
    /\ no_signal
    /\ UNCHANGED <<app_vars, window, auto_refresh, timer_id, pending, tree_vars>>

\* a plausible slip: switching auto-refresh off removes the 3 s source
toggle_auto_removes_source ==
    /\ window = "open"
    /\ auto_refresh' = ~ auto_refresh
    /\ timer_id' = IF auto_refresh' THEN "_auto_refresh_cb" ELSE NoSource
    /\ lastEvent' = "other"
    /\ no_refresh
    /\ no_signal
    /\ UNCHANGED <<app_vars, window, visible, selected, search_text, pending, tree_vars>>

\* _toggle_auto (lines 221-222): "toggled" of the toggle button, whose active
\* state starts True (line 68) like self._auto_refresh (line 42)
toggle_auto ==
    /\ window = "open"
    /\ auto_refresh' = ~ auto_refresh
    /\ lastEvent' = "other"
    /\ no_refresh
    /\ no_signal
    /\ UNCHANGED <<app_vars, window, visible, selected, search_text, timer_id, pending, tree_vars>>

\* the user changes the selection of the tree view (multiple mode, line 87)
\* to any set of rows the view shows
select_rows ==
    /\ window = "open"
    /\ \E S \in (SUBSET visible) \ {selected} : selected' = S
    /\ lastEvent' = "other"
    /\ no_refresh
    /\ no_signal
    /\ UNCHANGED <<app_vars, window, visible, search_text, auto_refresh, timer_id, pending, tree_vars>>

\* _signal_selected (lines 208-219)
signal_selected(sig) ==
    /\ window = "open"
    /\ pending < MaxPending
    /\ \E outcome \in [selected -> Outcomes] :
          LET r == send_all(selected_rows(store, selected), outcome,
                            [attempted |-> {}, delivered |-> {}, exc |-> "none"])
          IN /\ attempted' = r.attempted
             /\ delivered' = r.delivered
             /\ exc' = r.exc
             /\ pending' = IF r.exc = "none" THEN pending + 1 ELSE pending
    /\ lastEvent' = "signal"
    /\ no_refresh
    /\ UNCHANGED <<app_vars, window, visible, selected, search_text, auto_refresh, timer_id, tree_vars>>

\* _kill_selected (lines 205-206): the Kill button
kill_selected == signal_selected("SIGKILL")

\* the SIGTERM button (line 65)
term_clicked == signal_selected("SIGTERM")

Next ==
    \/ do_activate
    \/ quit
    \/ refresh_clicked
    \/ auto_refresh_cb
    \/ timeout_refresh
    \/ on_search
    \/ toggle_auto
    \/ select_rows
    \/ kill_selected
    \/ term_clicked

Spec == Init /\ [][Next]_vars

----------------------------------------------------------------------------
(* TreeSpec: lines 169-181 of _refresh, one call or return of add_tree per  *)
(* step, for any poll. A frame of the stack is a call of add_tree: its pid *)
(* and the children its for loop (line 176) has not reached.               *)

TreeInit ==
    /\ pref_file = NoFile
    /\ wlc_settings = <<>>
    /\ window = "none"
    /\ dialog = FALSE
    /\ activate_exc = "none"
    /\ procs \in TreeSnapshots
    /\ store = <<>>
    /\ visible = {}
    /\ selected = {}
    /\ search_text = <<>>
    /\ auto_refresh = TRUE
    /\ timer_id = NoSource
    /\ pending = 0
    /\ lastEvent = "init"
    /\ refreshed = FALSE
    /\ attempted = {}
    /\ delivered = {}
    /\ exc = "none"
    /\ pc = "roots"
    /\ roots_left = Sorted(roots(procs))
    /\ stack = <<>>

ui_vars == <<pref_file, wlc_settings, window, dialog, activate_exc, procs, visible,
             selected, search_text, auto_refresh, timer_id, pending, lastEvent,
             refreshed, attempted, delivered, exc>>

frame(pid) == [pid |-> pid, todo |-> children(procs, pid)]

\* line 181: add_tree(pid) for the next root
tree_call_root ==
    /\ pc = "roots"
    /\ stack = <<>>
    /\ roots_left # <<>>
    /\ store' = add_proc(store, procs, Head(roots_left), None)
    /\ stack' = <<frame(Head(roots_left))>>
    /\ roots_left' = Tail(roots_left)
    /\ UNCHANGED <<ui_vars, pc>>

\* line 177: add_tree(child_pid, it) for the next child of the running call
tree_call_child ==
    /\ stack # <<>>
    /\ stack[Len(stack)].todo # <<>>
    /\ LET top == stack[Len(stack)]
           child == Head(top.todo)
       IN /\ store' = add_proc(store, procs, child, top.pid)
          /\ stack' = Append([stack EXCEPT ![Len(stack)].todo = Tail(top.todo)],
                             frame(child))
    /\ UNCHANGED <<ui_vars, pc, roots_left>>

\* the for loop of line 176 is exhausted: the running call returns
tree_return ==
    /\ stack # <<>>
    /\ stack[Len(stack)].todo = <<>>
    /\ stack' = SubSeq(stack, 1, Len(stack) - 1)
    /\ UNCHANGED <<ui_vars, pc, roots_left, store>>

\* the for loop of line 180 is exhausted
tree_done ==
    /\ pc = "roots"
    /\ stack = <<>>
    /\ roots_left = <<>>
    /\ pc' = "done"
    /\ UNCHANGED <<ui_vars, roots_left, store, stack>>

TreeNext ==
    \/ tree_call_root
    \/ tree_call_child
    \/ tree_return
    \/ tree_done

\* the interpreter keeps running the loop
TreeSpec == TreeInit /\ [][TreeNext]_vars /\ WF_vars(TreeNext)

----------------------------------------------------------------------------
(* Claims *)

\* C1: after every completed _refresh the store holds exactly one row for
\* each record of that poll and no row for any other pid.
C1_TreeReflectsLatestPoll ==
    refreshed =>
        /\ \A p \in DOMAIN procs :
              Cardinality({ i \in 1..Len(store) : store[i].pid = p }) = 1
        /\ RowPids(store) \subseteq DOMAIN procs

C3_FilterShowsOnlyMatches ==
    LET same(c, d) == LowerChar(c) = LowerChar(d)
        within(s, t) == \E k \in 0..(Len(t) - Len(s)) :
                            \A j \in 1..Len(s) : same(s[j], t[k + j])
        matches(row) == \/ within(search_text, row.name)
                        \/ within(search_text, row.user)
                        \/ within(search_text, Str(row.pid))
    IN IF search_text = <<>>
       THEN visible = RowPids(store)
       ELSE \A i \in 1..Len(store) : store[i].pid \in visible => matches(store[i])

\* C3 witness: a search text is set, the filter model shows some row and hides
\* some row.
C3_Witness ==
    /\ search_text # <<>>
    /\ visible # {}
    /\ visible # RowPids(store)

\* C4: a firing of _auto_refresh_cb while auto-refresh is disabled neither
\* clears nor rebuilds the store; a firing while it is enabled rebuilds it.
C4_DisabledCallbackDoesNotRebuild ==
    /\ [](lastEvent = "auto_cb" /\ auto_refresh => refreshed)
    /\ [][lastEvent' = "auto_cb" /\ ~ auto_refresh'
            => ~ refreshed' /\ store' = store /\ procs' = procs]_vars

\* C4 witness: the callback fired while auto-refresh was disabled, over a
\* store that holds rows.
C4_Witness ==
    /\ lastEvent = "auto_cb"
    /\ ~ auto_refresh
    /\ store # <<>>

\* C5: with no preference file, an activation shows the welcome dialog (and
\* dismissing it writes the file, after which no activation shows it).
C5_FirstActivationShowsWelcome ==
    (wlc_settings # <<>> /\ pref_file = NoFile) => dialog

\* C6: the signal handlers call send_signal for every selected row; lookup
\* and permission errors are swallowed, the handler ends without an exception
\* and schedules the refresh, and the search text and the auto-refresh flag
\* are as before.
C6_SignalBestEffort ==
    /\ [](lastEvent = "signal" => attempted = selected /\ exc = "none" /\ pending > 0)
    /\ [][lastEvent' = "signal"
            => search_text' = search_text /\ auto_refresh' = auto_refresh]_vars

\* C6 witness: a send failed and a row after it was still signalled.
C6_Witness ==
    /\ lastEvent = "signal"
    /\ \E i, j \in 1..Len(store) :
          /\ i < j
          /\ store[i].pid \in attempted \ delivered
          /\ store[j].pid \in delivered

\* C7 as stated: while auto-refresh is disabled the 3 s source is not
\* scheduled and its callback does not fire.
C7_TimerStoppedWhileDisabled ==
    (window = "open" /\ ~ auto_refresh) =>
        (timer_id = NoSource /\ lastEvent # "auto_cb")

\* C7 as amended: the 3 s source stays scheduled as long as the window lives,
\* whatever the flag; a firing while auto-refresh is disabled does not call
\* _refresh.
C7_TimerStaysScheduled ==
    window = "open" =>
        /\ timer_id = "_auto_refresh_cb"
        /\ (lastEvent = "auto_cb" /\ ~ auto_refresh) => ~ refreshed

\* C7 witness: the callback fired while auto-refresh was disabled.
C7_Witness ==
    /\ window = "open"
    /\ ~ auto_refresh
    /\ lastEvent = "auto_cb"
    /\ timer_id # NoSource

\* C8: every pid selected before a refresh and present in the new poll is
\* selected after the refresh.
C8_SelectionRestored ==
    [][refreshed' => (selected \cap DOMAIN procs') \subseteq selected']_vars

\* C9: with a non-empty search text every row of the store the filter
\* function accepts is shown by the filter model, whatever its ancestors.
C9_MatchingRowsShown ==
    search_text # <<>> =>
        \A i \in 1..Len(store) :
            filter_func(store[i], search_text) => store[i].pid \in visible

\* C10: the tree construction ends for every poll, self-parented records and
\* ppid cycles included: add_tree is called at most once per pid, the calls
\* never nest deeper than the number of records, and the loop can always
\* take its next step until it is done.
C10_AddTreeTerminates ==
    /\ Cardinality(RowPids(store)) = Len(store)
    /\ Len(store) <= Cardinality(DOMAIN procs)
    /\ Len(stack) <= Cardinality(DOMAIN procs)
    /\ pc = "done" \/ ENABLED TreeNext

\* C10 witness: the construction ended, with rows, on a poll in which two
\* records are each other's parent or a record is its own.
C10_Witness ==
    /\ pc = "done"
    /\ store # <<>>
    /\ \E p, q \in DOMAIN procs : procs[p].ppid = q /\ procs[q].ppid = p

====
